---- MODULE Spec2Model ----
(***************************************************************************)
(* DatabaseRepository (server/src/infra/repositories/database.repository.ts) *)
(* of immich: the advisory lock manager (withLock / isBusy / wait) and the   *)
(* vector extension upgrade (updateVectorExtension).                         *)
(***************************************************************************)
EXTENDS Integers, Sequences, FiniteSets, TLC

(***************************************************************************)
(* Bounds of the model.                                                    *)
(***************************************************************************)
\* server processes sharing one database, each with its own DatabaseRepository
NProcs == 2
\* withLock / wait calls made in one behaviour
NCalls == 2

\* the largest major, minor and patch number of the versions tried
MaxPart == 1

\* the largest patch number of the available versions tried
MaxPatch == 11

Procs == 1..NProcs
NoCall == 0

(***************************************************************************)
(* enum DatabaseLock: the advisory lock keys, and the reverse mapping      *)
(* DatabaseLock[lock] that gives the async-lock key.                       *)
(***************************************************************************)
GeodataImport == 100
StorageTemplateMigration == 420
CLIPDimSize == 512
DatabaseLock == {GeodataImport, StorageTemplateMigration, CLIPDimSize}

DatabaseLockName(k) ==
    CASE k = GeodataImport -> "GeodataImport"
      [] k = StorageTemplateMigration -> "StorageTemplateMigration"
      [] k = CLIPDimSize -> "CLIPDimSize"

LockNames == {DatabaseLockName(k) : k \in DatabaseLock}

VARIABLES
    pc,        \* pc[c]: where call c is
    kind,      \* kind[c]: "withLock" or "wait" ("none" before the call)
    lock,      \* lock[c]: the DatabaseLock argument (0 before the call)
    proc,      \* proc[c]: the process making the call (0 before the call)
    asyncLock, \* asyncLock[p][name]: the holder followed by the pending tasks
    dbLock,    \* dbLock[k]: the call whose session holds advisory lock k, or NoCall
    queryRunner, \* queryRunner[c]: "none", "open" or "released"
    res,       \* res[c]: the local `res` of withLock ("undefined" until assigned)
    pending,   \* pending[c]: the exception in flight inside the callback
    result,    \* result[c]: what the call gave its caller
    log        \* log[c]: the steps call c has performed, in order

lockVars == <<pc, kind, lock, proc, asyncLock, dbLock, queryRunner, res, pending, result, log>>

\* the withLock / wait calls of the behaviour, numbered from 1
Calls == DOMAIN pc

VARIABLES
    vectorExt,      \* the configured vector extension (database.config)
    pgExtension,    \* the pg_extension row of the extension being updated
    uPc,            \* where the updateVectorExtension call is
    extension,      \* its `extension` argument
    version,        \* its `version` argument, or NoVersion
    curVersion,     \* its local curVersion
    minorOrMajor,   \* its local minorOrMajor
    restartRequired, \* its local restartRequired
    rIndex,         \* the index reindex() is working on
    uLog,           \* the statements issued so far, in order
    uResult         \* what the call gave its caller

upgradeVars == <<vectorExt, pgExtension, uPc, extension, version, curVersion,
                 minorOrMajor, restartRequired, rIndex, uLog, uResult>>

VARIABLES
    op,             \* the repository operation called ("none" before the call)
    env,            \* process.env.IMMICH_VECTOR_EXTENSION, or Undefined
    startup,        \* database.config: "loading", "loaded" or "failed"
    pgAvailable     \* the pg_available_extension_versions rows of the extension

otherVars == <<op, env, startup, pgAvailable>>

vars == <<lockVars, upgradeVars, otherVars>>

(***************************************************************************)
(* async-lock, as the repository uses it: one FIFO of tasks per key; the   *)
(* head of the list is the task whose callback is running.                 *)
(***************************************************************************)
Queue(p, k) == asyncLock[p][DatabaseLockName(k)]

\* async-lock: the key has a task list (`!!this.queues[key]`)
KeyBusy(p, k) == Len(Queue(p, k)) > 0

\* isBusy reading one lock state for all processes
isBusyAnyProcess(p, k) == \E q \in Procs : KeyBusy(q, k)

\* DatabaseRepository.isBusy(lock) of process p
isBusy(p, k) == KeyBusy(p, k)

\* the value the operation passed to withLock returns
OperationValue == "r"

\* The callback of a task starts running: withLock's callback creates its
\* query runner and issues the lock query; wait's callback is empty.
StartedPc(kd) == IF kd = "withLock" THEN "locking" ELSE "waitHolding"

StartedLog(kd) ==
    IF kd = "withLock" THEN <<"mutex.acquire", "runner.create">>
    ELSE <<"mutex.acquire">>

\* acquire that runs fn at once, whether or not the key is busy
AcquireNoMutex(c, p, k, kd) ==
    /\ asyncLock' = [asyncLock EXCEPT ![p][DatabaseLockName(k)] = Append(@, c)]
    /\ pc' = [pc EXCEPT ![c] = StartedPc(kd)]
    /\ log' = [log EXCEPT ![c] = StartedLog(kd)]
    /\ queryRunner' = [queryRunner EXCEPT ![c] = IF kd = "withLock" THEN "open" ELSE "none"]

\* asyncLock.acquire(key, fn): run fn now when the key is free, else queue it
Acquire(c, p, k, kd) ==
    LET free == ~KeyBusy(p, k) IN
    /\ asyncLock' = [asyncLock EXCEPT ![p][DatabaseLockName(k)] = Append(@, c)]
    /\ pc' = [pc EXCEPT ![c] = IF free THEN StartedPc(kd) ELSE "queued"]
    /\ log' = [log EXCEPT ![c] = IF free THEN StartedLog(kd) ELSE <<"queued">>]
    /\ queryRunner' = [queryRunner EXCEPT
            ![c] = IF free /\ kd = "withLock" THEN "open" ELSE "none"]

\* the tasks left once the running one is done, and the one that runs next
Rest(c) == Tail(Queue(proc[c], lock[c]))

\* a release that hands the key to no pending task
NoNextTask(c) == {}

NextTask(c) == IF Rest(c) = <<>> THEN {} ELSE {Head(Rest(c))}

\* async-lock's done(): the task leaves the list, its promise settles with
\* `outcome`, and the next pending task of the key starts
Done(c, outcome, last) ==
    /\ asyncLock' = [asyncLock EXCEPT ![proc[c]][DatabaseLockName(lock[c])] = Rest(c)]
    /\ pc' = [x \in Calls |->
                IF x = c THEN "done"
                ELSE IF x \in NextTask(c) THEN StartedPc(kind[x]) ELSE pc[x]]
    /\ log' = [x \in Calls |->
                IF x = c THEN log[c] \o last \o <<"mutex.release">>
                ELSE IF x \in NextTask(c) THEN log[x] \o StartedLog(kind[x])
                ELSE log[x]]
    /\ result' = [result EXCEPT ![c] = outcome]

\* the queryRunner of the task started by Done, if it is a withLock
DoneRunner(c, mine) ==
    queryRunner' = [x \in Calls |->
                IF x = c THEN mine
                ELSE IF x \in NextTask(c) /\ kind[x] = "withLock" THEN "open"
                ELSE queryRunner[x]]

(***************************************************************************)
(* withLock(lock, callback)                                                *)
(***************************************************************************)
\* After done() the continuation of `await this.asyncLock.acquire(...)` runs as
\* a microtask, before any query completion or new call is handled: while a
\* call is at "done" nothing else runs.
NoContinuationDue == \A c \in Calls : pc[c] # "done"

\* Calls are numbered in the order they are made, processes in the order of
\* their first call, and (the code treating every key alike) the keys are
\* first used in increasing order.
MayCall(c, p, k) ==
    /\ NoContinuationDue
    /\ pc[c] = "idle"
    /\ \A d \in Calls : d < c => pc[d] # "idle"
    /\ \A q \in Procs : q < p => \E d \in Calls : proc[d] = q
    /\ \A j \in DatabaseLock : j < k => \E d \in Calls : lock[d] = j

WithLockCall(c, p, k) ==
    /\ UNCHANGED <<upgradeVars, otherVars>>
    /\ MayCall(c, p, k)
    /\ kind' = [kind EXCEPT ![c] = "withLock"]
    /\ lock' = [lock EXCEPT ![c] = k]
    /\ proc' = [proc EXCEPT ![c] = p]
    /\ Acquire(c, p, k, "withLock")
    /\ UNCHANGED <<dbLock, res, pending, result>>

\* a lock query that returns without waiting for the key (pg_try_advisory_lock
\* with its answer ignored)
AcquireLockOkNoWait(c) ==
    /\ UNCHANGED <<upgradeVars, otherVars>>
    /\ NoContinuationDue
    /\ pc[c] = "locking"
    /\ dbLock' = [dbLock EXCEPT ![lock[c]] = IF @ = NoCall THEN c ELSE @]
    /\ pc' = [pc EXCEPT ![c] = "body"]
    /\ log' = [log EXCEPT ![c] = @ \o <<"lock.acquire", "operation.start">>]
    /\ UNCHANGED <<kind, lock, proc, asyncLock, queryRunner, res, pending, result>>

\* acquireLock: SELECT pg_advisory_lock($1) returns once no other session
\* holds the key; then callback() is called
AcquireLockOk(c) ==
    /\ UNCHANGED <<upgradeVars, otherVars>>
    /\ NoContinuationDue
    /\ pc[c] = "locking"
    /\ dbLock[lock[c]] \in {NoCall, c}
    /\ dbLock' = [dbLock EXCEPT ![lock[c]] = c]
    /\ pc' = [pc EXCEPT ![c] = "body"]
    /\ log' = [log EXCEPT ![c] = @ \o <<"lock.acquire", "operation.start">>]
    /\ UNCHANGED <<kind, lock, proc, asyncLock, queryRunner, res, pending, result>>

\* the lock query fails: control goes to the outer finally
AcquireLockFail(c) ==
    /\ UNCHANGED <<upgradeVars, otherVars>>
    /\ NoContinuationDue
    /\ pc[c] = "locking"
    /\ pc' = [pc EXCEPT ![c] = "unlocking"]
    /\ pending' = [pending EXCEPT ![c] = "lockError"]
    /\ log' = [log EXCEPT ![c] = Append(@, "lock.fail")]
    /\ UNCHANGED <<kind, lock, proc, asyncLock, dbLock, queryRunner, res, result>>

\* res = await callback()
CallbackReturn(c) ==
    /\ UNCHANGED <<upgradeVars, otherVars>>
    /\ NoContinuationDue
    /\ pc[c] = "body"
    /\ res' = [res EXCEPT ![c] = OperationValue]
    /\ pc' = [pc EXCEPT ![c] = "unlocking"]
    /\ log' = [log EXCEPT ![c] = Append(@, "operation.return")]
    /\ UNCHANGED <<kind, lock, proc, asyncLock, dbLock, queryRunner, pending, result>>

\* withLock without its finally blocks around the unlock: a throwing callback
\* goes straight to queryRunner.release()
CallbackThrowNoFinally(c) ==
    /\ UNCHANGED <<upgradeVars, otherVars>>
    /\ NoContinuationDue
    /\ pc[c] = "body"
    /\ pending' = [pending EXCEPT ![c] = "operationError"]
    /\ pc' = [pc EXCEPT ![c] = "releasing"]
    /\ log' = [log EXCEPT ![c] = Append(@, "operation.throw")]
    /\ UNCHANGED <<kind, lock, proc, asyncLock, dbLock, queryRunner, res, result>>

CallbackThrow(c) ==
    /\ UNCHANGED <<upgradeVars, otherVars>>
    /\ NoContinuationDue
    /\ pc[c] = "body"
    /\ pending' = [pending EXCEPT ![c] = "operationError"]
    /\ pc' = [pc EXCEPT ![c] = "unlocking"]
    /\ log' = [log EXCEPT ![c] = Append(@, "operation.throw")]
    /\ UNCHANGED <<kind, lock, proc, asyncLock, dbLock, queryRunner, res, result>>

\* an unlock that names another key: the query succeeds and releases nothing
ReleaseLockOkWrongKey(c) ==
    /\ UNCHANGED <<upgradeVars, otherVars>>
    /\ NoContinuationDue
    /\ pc[c] = "unlocking"
    /\ pc' = [pc EXCEPT ![c] = "releasing"]
    /\ log' = [log EXCEPT ![c] = Append(@, "lock.release")]
    /\ UNCHANGED <<kind, lock, proc, asyncLock, dbLock, queryRunner, res, pending, result>>

\* releaseLock: SELECT pg_advisory_unlock($1) releases the key when this
\* session holds it (and only warns when it does not)
ReleaseLockOk(c) ==
    /\ UNCHANGED <<upgradeVars, otherVars>>
    /\ NoContinuationDue
    /\ pc[c] = "unlocking"
    /\ dbLock' = [dbLock EXCEPT ![lock[c]] = IF @ = c THEN NoCall ELSE @]
    /\ pc' = [pc EXCEPT ![c] = "releasing"]
    /\ log' = [log EXCEPT ![c] = Append(@, "lock.release")]
    /\ UNCHANGED <<kind, lock, proc, asyncLock, queryRunner, res, pending, result>>

\* a failed unlock whose error does not replace an error already in flight
ReleaseLockFailKeepsPending(c, sessionLost) ==
    /\ UNCHANGED <<upgradeVars, otherVars>>
    /\ NoContinuationDue
    /\ pc[c] = "unlocking"
    /\ dbLock' = [dbLock EXCEPT ![lock[c]] = IF @ = c /\ sessionLost THEN NoCall ELSE @]
    /\ pending' = [pending EXCEPT ![c] = IF @ = "none" THEN "unlockError" ELSE @]
    /\ pc' = [pc EXCEPT ![c] = "releasing"]
    /\ log' = [log EXCEPT ![c] = Append(@, "unlock.fail")]
    /\ UNCHANGED <<kind, lock, proc, asyncLock, queryRunner, res, result>>

\* the unlock query fails: the statement has had no effect; the session
\* either lives on in the pool, still holding the key, or is gone, and the
\* server has dropped its locks.  The error replaces the one in flight.
ReleaseLockFail(c, sessionLost) ==
    /\ UNCHANGED <<upgradeVars, otherVars>>
    /\ NoContinuationDue
    /\ pc[c] = "unlocking"
    /\ dbLock' = [dbLock EXCEPT ![lock[c]] = IF @ = c /\ sessionLost THEN NoCall ELSE @]
    /\ pending' = [pending EXCEPT ![c] = "unlockError"]
    /\ pc' = [pc EXCEPT ![c] = "releasing"]
    /\ log' = [log EXCEPT ![c] = Append(@, "unlock.fail")]
    /\ UNCHANGED <<kind, lock, proc, asyncLock, queryRunner, res, result>>

\* what withLock gives its caller once the callback of asyncLock.acquire ends
Outcome(c, err) == IF err = "none" THEN res[c] ELSE err

\* queryRunner.release() in the inner finally, the end of the callback, and
\* `return res as R`
QueryRunnerReleaseOk(c) ==
    /\ UNCHANGED <<upgradeVars, otherVars>>
    /\ NoContinuationDue
    /\ pc[c] = "releasing"
    /\ Done(c, Outcome(c, pending[c]), <<"runner.release">>)
    /\ DoneRunner(c, "released")
    /\ UNCHANGED <<kind, lock, proc, dbLock, res, pending>>

QueryRunnerReleaseFail(c) ==
    /\ UNCHANGED <<upgradeVars, otherVars>>
    /\ NoContinuationDue
    /\ pc[c] = "releasing"
    /\ pending' = [pending EXCEPT ![c] = "releaseError"]
    /\ Done(c, Outcome(c, "releaseError"), <<"runner.release.fail">>)
    /\ DoneRunner(c, "open")
    /\ UNCHANGED <<kind, lock, proc, dbLock, res>>

\* `return res as R` in withLock, the end of wait: the caller has the outcome
\* and the locals of the call are gone
Return(c) ==
    /\ UNCHANGED <<upgradeVars, otherVars>>
    /\ pc[c] = "done"
    /\ pc' = [pc EXCEPT ![c] = "returned"]
    /\ log' = [log EXCEPT ![c] = <<>>]
    /\ res' = [res EXCEPT ![c] = "undefined"]
    /\ pending' = [pending EXCEPT ![c] = "none"]
    /\ result' = [result EXCEPT ![c] = "none"]
    /\ queryRunner' = [queryRunner EXCEPT ![c] = "none"]
    /\ UNCHANGED <<kind, lock, proc, asyncLock, dbLock>>

(***************************************************************************)
(* wait(lock)                                                              *)
(***************************************************************************)
\* wait that does not await the acquire: it returns at once
WaitCallNoAwait(c, p, k) ==
    /\ UNCHANGED <<upgradeVars, otherVars>>
    /\ MayCall(c, p, k)
    /\ kind' = [kind EXCEPT ![c] = "wait"]
    /\ lock' = [lock EXCEPT ![c] = k]
    /\ proc' = [proc EXCEPT ![c] = p]
    /\ pc' = [pc EXCEPT ![c] = "done"]
    /\ result' = [result EXCEPT ![c] = "undefined"]
    /\ UNCHANGED <<asyncLock, dbLock, queryRunner, res, pending, log>>

WaitCall(c, p, k) ==
    /\ UNCHANGED <<upgradeVars, otherVars>>
    /\ MayCall(c, p, k)
    /\ kind' = [kind EXCEPT ![c] = "wait"]
    /\ lock' = [lock EXCEPT ![c] = k]
    /\ proc' = [proc EXCEPT ![c] = p]
    /\ Acquire(c, p, k, "wait")
    /\ UNCHANGED <<dbLock, res, pending, result>>

\* the empty callback has returned: the key is released and wait returns
WaitReturn(c) ==
    /\ UNCHANGED <<upgradeVars, otherVars>>
    /\ NoContinuationDue
    /\ pc[c] = "waitHolding"
    /\ Done(c, "undefined", <<>>)
    /\ DoneRunner(c, "none")
    /\ UNCHANGED <<kind, lock, proc, dbLock, res, pending>>

(***************************************************************************)
(* The lock manager.                                                       *)
(***************************************************************************)
\* no call made yet, of the calls ids
NoCallMade(ids) ==
    /\ pc = [c \in ids |-> "idle"]
    /\ kind = [c \in ids |-> "none"]
    /\ lock = [c \in ids |-> 0]
    /\ proc = [c \in ids |-> 0]
    /\ asyncLock = [p \in Procs |-> [n \in LockNames |-> <<>>]]
    /\ dbLock = [k \in DatabaseLock |-> NoCall]
    /\ queryRunner = [c \in ids |-> "none"]
    /\ res = [c \in ids |-> "undefined"]
    /\ pending = [c \in ids |-> "none"]
    /\ result = [c \in ids |-> "none"]
    /\ log = [c \in ids |-> <<>>]

LockInit == NoCallMade(1..NCalls)

LockNext ==
    \E c \in Calls :
        \/ \E p \in Procs, k \in DatabaseLock : WithLockCall(c, p, k)
        \/ \E p \in Procs, k \in DatabaseLock : WaitCall(c, p, k)
        \/ AcquireLockOk(c)
        \/ AcquireLockFail(c)
        \/ CallbackReturn(c)
        \/ CallbackThrow(c)
        \/ ReleaseLockOk(c)
        \/ \E sessionLost \in BOOLEAN : ReleaseLockFail(c, sessionLost)
        \/ QueryRunnerReleaseOk(c)
        \/ QueryRunnerReleaseFail(c)
        \/ WaitReturn(c)
        \/ Return(c)

(***************************************************************************)
(* Text is a sequence of characters.                                       *)
(***************************************************************************)
Digits == <<"0", "1", "2", "3", "4", "5", "6", "7", "8", "9">>

DigitSet == {Digits[i] : i \in 1..10}

DigitValue(ch) == CHOOSE d \in 0..9 : Digits[d + 1] = ch

RECURSIVE NatToText(_)
NatToText(n) ==
    IF n < 10 THEN <<Digits[n + 1]>>
    ELSE NatToText(n \div 10) \o <<Digits[(n % 10) + 1]>>

RECURSIVE TextToNat(_)
TextToNat(t) ==
    IF Len(t) = 1 THEN DigitValue(t[1])
    ELSE 10 * TextToNat(SubSeq(t, 1, Len(t) - 1)) + DigitValue(t[Len(t)])

\* the first place of ch in t, 0 when there is none
IndexOf(t, ch) ==
    IF \E i \in 1..Len(t) : t[i] = ch
    THEN CHOOSE i \in 1..Len(t) : t[i] = ch /\ \A j \in 1..(i - 1) : t[j] # ch
    ELSE 0

IsUint(t) == Len(t) > 0 /\ \A i \in 1..Len(t) : t[i] \in DigitSet

(***************************************************************************)
(* Version and VersionType (domain.constant)                               *)
(***************************************************************************)
VersionTypeEQUAL == 0
VersionTypePATCH == 1
VersionTypeMINOR == 2
VersionTypeMAJOR == 3

NewVersion(major, minor, patch) == [major |-> major, minor |-> minor, patch |-> patch]

\* Version.toString(): the canonical "major.minor.patch"
VersionToString(v) ==
    NatToText(v.major) \o <<".">> \o NatToText(v.minor) \o <<".">> \o NatToText(v.patch)

ParseError == [error |-> "ParseError"]

\* Version.fromString(text): <uint>.<uint>.<uint>, then optionally -<suffix>
VersionFromString(t) ==
    LET dash == IndexOf(t, "-")
        core == IF dash = 0 THEN t ELSE SubSeq(t, 1, dash - 1)
        d1 == IndexOf(core, ".")
        rest1 == SubSeq(core, d1 + 1, Len(core))
        d2 == IndexOf(rest1, ".")
        a == SubSeq(core, 1, d1 - 1)
        b == SubSeq(rest1, 1, d2 - 1)
        c == SubSeq(rest1, d2 + 1, Len(rest1))
    IN IF d1 > 0 /\ d2 > 0 /\ IsUint(a) /\ IsUint(b) /\ IsUint(c)
       THEN NewVersion(TextToNat(a), TextToNat(b), TextToNat(c))
       ELSE ParseError

\* Version.isEqual(version)
VersionIsEqual(v, w) == v.major = w.major /\ v.minor = w.minor /\ v.patch = w.patch

\* Version.isOlderThan(version): the most significant part in which this
\* version is behind, EQUAL when it is not behind
VersionIsOlderThan(v, w) ==
    IF v.major # w.major
    THEN (IF v.major < w.major THEN VersionTypeMAJOR ELSE VersionTypeEQUAL)
    ELSE IF v.minor # w.minor
    THEN (IF v.minor < w.minor THEN VersionTypeMINOR ELSE VersionTypeEQUAL)
    ELSE IF v.patch # w.patch
    THEN (IF v.patch < w.patch THEN VersionTypePATCH ELSE VersionTypeEQUAL)
    ELSE VersionTypeEQUAL

Versions == {NewVersion(a, b, c) : a \in 0..MaxPart, b \in 0..MaxPart, c \in 0..MaxPart}

NoVersion == [undefined |-> TRUE]
Null == [null |-> TRUE]

(***************************************************************************)
(* enum DatabaseExtension (the vector extensions) and extName              *)
(***************************************************************************)
VECTOR == "vector"
VECTORS == "vectors"
VectorExtension == {VECTOR, VECTORS}

extName(e) ==
    CASE e = "cube" -> "cube"
      [] e = "earthdistance" -> "earthdistance"
      [] e = VECTOR -> "pgvector"
      [] e = VECTORS -> "pgvecto.rs"

\* enum VectorIndex
CLIP == "clip_index"
FACE == "face_index"

(***************************************************************************)
(* database.config: the vector extension is resolved once, when the module *)
(* is loaded, from process.env.IMMICH_VECTOR_EXTENSION.                    *)
(***************************************************************************)
\* the largest run of white space put before and after a configured value
MaxPad == 1

Undefined == [undefined |-> TRUE]

\* a string value
Str(t) == [value |-> t]

LowerCase == <<"a", "b", "c", "d", "e", "f", "g", "h", "i", "j", "k", "l", "m",
               "n", "o", "p", "q", "r", "s", "t", "u", "v", "w", "x", "y", "z">>

UpperCase == <<"A", "B", "C", "D", "E", "F", "G", "H", "I", "J", "K", "L", "M",
               "N", "O", "P", "Q", "R", "S", "T", "U", "V", "W", "X", "Y", "Z">>

WhiteSpace == {" ", "\t"}

ToLowerChar(ch) ==
    IF \E i \in 1..Len(UpperCase) : UpperCase[i] = ch
    THEN LowerCase[CHOOSE i \in 1..Len(UpperCase) : UpperCase[i] = ch]
    ELSE ch

ToUpperChar(ch) ==
    IF \E i \in 1..Len(LowerCase) : LowerCase[i] = ch
    THEN UpperCase[CHOOSE i \in 1..Len(LowerCase) : LowerCase[i] = ch]
    ELSE ch

\* String.prototype.toLowerCase / toUpperCase
toLowerCase(t) == [i \in 1..Len(t) |-> ToLowerChar(t[i])]

toUpperCase(t) == [i \in 1..Len(t) |-> ToUpperChar(t[i])]

RECURSIVE trimStart(_)
trimStart(t) ==
    IF t # <<>> /\ Head(t) \in WhiteSpace THEN trimStart(Tail(t)) ELSE t

RECURSIVE trimEnd(_)
trimEnd(t) ==
    IF t # <<>> /\ t[Len(t)] \in WhiteSpace THEN trimEnd(SubSeq(t, 1, Len(t) - 1)) ELSE t

\* String.prototype.trim
trim(t) == trimEnd(trimStart(t))

\* the names in ['pgvector', 'pgvecto.rs']
PGVECTOR == <<"p", "g", "v", "e", "c", "t", "o", "r">>
PGVECTO_RS == <<"p", "g", "v", "e", "c", "t", "o", ".", "r", "s">>

\* the configured value taken as it is written
vectorEnvAsWritten(e) == e

\* const vectorEnv = process.env.IMMICH_VECTOR_EXTENSION?.trim().toLowerCase()
vectorEnv(e) == IF e = Undefined THEN Undefined ELSE Str(toLowerCase(trim(e.value)))

\* a value that is neither undefined nor the empty string
Truthy(v) == v # Undefined /\ v.value # <<>>

\* the module body of database.config: the check of the name, then
\* `export const vectorExt`
LoadConfig ==
    /\ UNCHANGED lockVars
    /\ startup = "loading"
    /\ LET v == vectorEnv(env) IN
       IF Truthy(v) /\ v \notin {Str(PGVECTOR), Str(PGVECTO_RS)}
       THEN startup' = "failed" /\ UNCHANGED vectorExt
       ELSE /\ startup' = "loaded"
            /\ vectorExt' = IF v = Str(PGVECTOR) THEN VECTOR ELSE VECTORS
    /\ UNCHANGED <<pgExtension, uPc, extension, version, curVersion, minorOrMajor,
                   restartRequired, rIndex, uLog, uResult, op, env, pgAvailable>>

(***************************************************************************)
(* updateVectorExtension(extension, version)                               *)
(***************************************************************************)
\* a statement sent to the database: what it is, the object it names, the
\* text put into it, and whether it succeeded
Stmt(q, on, arg, ok) == [q |-> q, on |-> on, arg |-> arg, ok |-> ok]

Issue(st) == uLog' = Append(uLog, st)

Throw(err) == uPc' = "failed" /\ uResult' = [error |-> err]

\* the text of the version in the upgrade DDL: ` TO '${version}-alpha.2'`,
\* or nothing
AlphaSuffix == <<"-", "a", "l", "p", "h", "a", ".", "2">>

UpdateToClause(ver) ==
    IF ver = NoVersion THEN <<>> ELSE VersionToString(ver) \o AlphaSuffix

\* getExtensionVersion without the reading of 0.1.1 as 0.1.11
ExtensionVersionNoRemap(rows) ==
    IF rows = <<>> THEN Null ELSE VersionFromString(rows[1].extversion)

\* a missing row read as version 0.0.0 instead of null
ExtensionVersionAbsentAsZero(rows) ==
    IF rows = <<>> THEN NewVersion(0, 0, 0)
    ELSE LET parsed == VersionFromString(rows[1].extversion) IN
         IF parsed = ParseError THEN ParseError
         ELSE IF VersionIsEqual(parsed, NewVersion(0, 1, 1)) THEN NewVersion(0, 1, 11)
         ELSE parsed

\* getExtensionVersion: the parsed extversion, 0.1.1 read as 0.1.11, or null
ExtensionVersionOf(rows) ==
    IF rows = <<>> THEN Null
    ELSE LET parsed == VersionFromString(rows[1].extversion) IN
         IF parsed = ParseError THEN ParseError
         ELSE IF VersionIsEqual(parsed, NewVersion(0, 1, 1)) THEN NewVersion(0, 1, 11)
         ELSE parsed

\* the comparison made at PATCH instead of MINOR
MinorOrMajorFromPatch(cur, ver) ==
    IF ver = NoVersion THEN FALSE ELSE VersionIsOlderThan(cur, ver) >= VersionTypePATCH

\* the comparison made the wrong way round: version.isOlderThan(curVersion)
MinorOrMajorSwapped(cur, ver) ==
    IF ver = NoVersion THEN FALSE ELSE VersionIsOlderThan(ver, cur) >= VersionTypeMINOR

\* const minorOrMajor = version && curVersion.isOlderThan(version) >= VersionType.MINOR
MinorOrMajor(cur, ver) ==
    IF ver = NoVersion THEN FALSE ELSE VersionIsOlderThan(cur, ver) >= VersionTypeMINOR

UpdateVectorExtensionCall(ext, ver) ==
    /\ UNCHANGED <<lockVars, env, startup, pgAvailable>>
    /\ uPc = "idle"
    /\ op' = "updateVectorExtension"
    /\ extension' = ext
    /\ version' = ver
    /\ uPc' = "getExtensionVersion"
    /\ UNCHANGED <<vectorExt, pgExtension, curVersion, minorOrMajor, restartRequired,
                   rIndex, uLog, uResult>>

\* const curVersion = await this.getExtensionVersion(extension), the
\* not-installed check, and the locals computed before the first statement
GetExtensionVersion(ok) ==
    /\ UNCHANGED <<lockVars, otherVars>>
    /\ uPc = "getExtensionVersion"
    /\ Issue(Stmt("SELECT extversion FROM pg_extension", extension, <<>>, ok))
    /\ IF ~ok
       THEN Throw("QueryFailedError") /\ UNCHANGED <<curVersion, minorOrMajor>>
       ELSE LET cur == ExtensionVersionOf(pgExtension) IN
            /\ curVersion' = cur
            /\ IF cur = Null
               THEN Throw("extension is not installed") /\ UNCHANGED minorOrMajor
               ELSE IF cur = ParseError
               THEN Throw("ParseError") /\ UNCHANGED minorOrMajor
               ELSE /\ minorOrMajor' = MinorOrMajor(cur, version)
                    /\ uPc' = IF minorOrMajor' /\ extension = VECTORS
                              THEN "createSchema" ELSE "alterExtension"
                    /\ UNCHANGED uResult
    /\ UNCHANGED <<vectorExt, pgExtension, extension, version, restartRequired, rIndex>>

\* one statement of a straight-line sequence: on success go on at `next`,
\* on failure the call throws
Query(at, st, next) ==
    /\ uPc = at
    /\ Issue(st)
    /\ IF st.ok THEN uPc' = next /\ UNCHANGED uResult ELSE Throw("QueryFailedError")

SetRow(rows, field, value) ==
    IF rows = <<>> THEN rows ELSE <<[rows[1] EXCEPT ![field] = value]>>

\* updateVectorsSchema, statement by statement (no transaction around them)
CreateSchema(ok) ==
    /\ UNCHANGED <<lockVars, otherVars>>
    /\ Query("createSchema", Stmt("CREATE SCHEMA IF NOT EXISTS", "vectors", <<>>, ok),
             "setExtversion")
    /\ UNCHANGED <<vectorExt, pgExtension, extension, version, curVersion, minorOrMajor,
                   restartRequired, rIndex>>

SetExtversion(ok) ==
    /\ UNCHANGED <<lockVars, otherVars>>
    /\ Query("setExtversion",
             Stmt("UPDATE pg_extension SET extversion", VECTORS, VersionToString(curVersion), ok),
             "setRelocatable")
    /\ pgExtension' = IF ok THEN SetRow(pgExtension, "extversion", VersionToString(curVersion))
                      ELSE pgExtension
    /\ UNCHANGED <<vectorExt, extension, version, curVersion, minorOrMajor,
                   restartRequired, rIndex>>

SetRelocatable(ok) ==
    /\ UNCHANGED <<lockVars, otherVars>>
    /\ Query("setRelocatable",
             Stmt("UPDATE pg_extension SET extrelocatable = true", VECTORS, <<>>, ok),
             "setSchema")
    /\ pgExtension' = IF ok THEN SetRow(pgExtension, "extrelocatable", TRUE) ELSE pgExtension
    /\ UNCHANGED <<vectorExt, extension, version, curVersion, minorOrMajor,
                   restartRequired, rIndex>>

SetSchema(ok) ==
    /\ UNCHANGED <<lockVars, otherVars>>
    /\ Query("setSchema", Stmt("ALTER EXTENSION SET SCHEMA", "vectors", <<>>, ok),
             "unsetRelocatable")
    /\ pgExtension' = IF ok THEN SetRow(pgExtension, "extnamespace", "vectors") ELSE pgExtension
    /\ UNCHANGED <<vectorExt, extension, version, curVersion, minorOrMajor,
                   restartRequired, rIndex>>

UnsetRelocatable(ok) ==
    /\ UNCHANGED <<lockVars, otherVars>>
    /\ Query("unsetRelocatable",
             Stmt("UPDATE pg_extension SET extrelocatable = false", VECTORS, <<>>, ok),
             "alterExtension")
    /\ pgExtension' = IF ok THEN SetRow(pgExtension, "extrelocatable", FALSE) ELSE pgExtension
    /\ UNCHANGED <<vectorExt, extension, version, curVersion, minorOrMajor,
                   restartRequired, rIndex>>

ReturnResult(restart) == uPc' = "returned" /\ uResult' = [restartRequired |-> restart]

\* a call returning the value v
ReturnValue(v) == uPc' = "returned" /\ uResult' = [value |-> v]

\* await manager.query(`ALTER EXTENSION ... UPDATE...`), then the early
\* return and the branch on isVectors.  An upgrade to a named version leaves
\* that version text in the catalog.
AlterExtensionUpdate(ok) ==
    /\ UNCHANGED <<lockVars, otherVars>>
    /\ uPc = "alterExtension"
    /\ Issue(Stmt("ALTER EXTENSION UPDATE", extension, UpdateToClause(version), ok))
    /\ pgExtension' = IF ok /\ version # NoVersion
                      THEN SetRow(pgExtension, "extversion", UpdateToClause(version))
                      ELSE pgExtension
    /\ IF ~ok THEN Throw("QueryFailedError") /\ UNCHANGED rIndex
       ELSE IF ~minorOrMajor THEN ReturnResult(restartRequired) /\ UNCHANGED rIndex
       ELSE IF extension = VECTORS
       THEN uPc' = "pgvectorsUpgrade" /\ UNCHANGED <<uResult, rIndex>>
       ELSE uPc' = "reindex" /\ rIndex' = CLIP /\ UNCHANGED uResult
    /\ UNCHANGED <<vectorExt, extension, version, curVersion, minorOrMajor, restartRequired>>

\* await manager.query('SELECT pgvectors_upgrade()'); restartRequired = true
PgvectorsUpgrade(ok) ==
    /\ UNCHANGED <<lockVars, otherVars>>
    /\ uPc = "pgvectorsUpgrade"
    /\ Issue(Stmt("SELECT pgvectors_upgrade()", VECTORS, <<>>, ok))
    /\ restartRequired' = IF ok THEN TRUE ELSE restartRequired
    /\ IF ok THEN ReturnResult(TRUE) ELSE Throw("QueryFailedError")
    /\ UNCHANGED <<vectorExt, pgExtension, extension, version, curVersion, minorOrMajor, rIndex>>

(***************************************************************************)
(* reindex(index), as updateVectorExtension calls it for CLIP, then FACE   *)
(***************************************************************************)
TableOf(index) == IF index = CLIP THEN "smart_search" ELSE "asset_faces"

\* updateVectorExtension returning after the first reindex
ReindexEndAfterClip == ReturnResult(restartRequired) /\ UNCHANGED rIndex

\* reindex(index) has ended without throwing: its caller goes on, which is
\* updateVectorExtension (CLIP, then FACE, then its return) or the caller of
\* the repository
ReindexEnd ==
    IF op = "reindex"
    THEN uPc' = "returned" /\ uResult' = Undefined /\ UNCHANGED rIndex
    ELSE IF rIndex = CLIP
    THEN uPc' = "reindex" /\ rIndex' = FACE /\ UNCHANGED uResult
    ELSE ReturnResult(restartRequired) /\ UNCHANGED rIndex

\* reindex(index) called on the repository
ReindexCall(index) ==
    /\ UNCHANGED <<lockVars, env, startup, pgAvailable>>
    /\ uPc = "idle"
    /\ op' = "reindex"
    /\ rIndex' = index
    /\ uPc' = "reindex"
    /\ UNCHANGED <<vectorExt, pgExtension, extension, version, curVersion, minorOrMajor,
                   restartRequired, uLog, uResult>>

\* the ways `REINDEX INDEX` fails
RebuildErrors == {"index corruption", "deadlock detected", "connection terminated"}

RebuildOutcomes == {"ok"} \cup RebuildErrors

\* a statement that failed with error err
Failed(q, on, err) == [q |-> q, on |-> on, arg |-> <<>>, ok |-> FALSE, err |-> err]

\* the catch block starting the recovery for one kind of error only
ReindexRecoverOnCorruption(out) ==
    /\ UNCHANGED <<lockVars, otherVars>>
    /\ uPc = "reindex"
    /\ Issue(IF out = "ok" THEN Stmt("REINDEX INDEX", rIndex, <<>>, TRUE)
             ELSE Failed("REINDEX INDEX", rIndex, out))
    /\ IF out = "ok" THEN ReindexEnd
       ELSE IF vectorExt = VECTORS /\ out = "index corruption"
       THEN uPc' = "startTransaction" /\ UNCHANGED <<uResult, rIndex>>
       ELSE Throw(out) /\ UNCHANGED rIndex
    /\ UNCHANGED <<vectorExt, pgExtension, extension, version, curVersion, minorOrMajor,
                   restartRequired>>

\* the catch block starting the recovery whatever vectorExt is
ReindexRecoverAlways(out) ==
    /\ UNCHANGED <<lockVars, otherVars>>
    /\ uPc = "reindex"
    /\ Issue(IF out = "ok" THEN Stmt("REINDEX INDEX", rIndex, <<>>, TRUE)
             ELSE Failed("REINDEX INDEX", rIndex, out))
    /\ IF out = "ok" THEN ReindexEnd
       ELSE uPc' = "startTransaction" /\ UNCHANGED <<uResult, rIndex>>
    /\ UNCHANGED <<vectorExt, pgExtension, extension, version, curVersion, minorOrMajor,
                   restartRequired>>

\* await this.dataSource.query(`REINDEX INDEX ${index}`) and the catch: the
\* error caught is looked at only to throw it again
Reindex(out) ==
    /\ UNCHANGED <<lockVars, otherVars>>
    /\ uPc = "reindex"
    /\ Issue(IF out = "ok" THEN Stmt("REINDEX INDEX", rIndex, <<>>, TRUE)
             ELSE Failed("REINDEX INDEX", rIndex, out))
    /\ IF out = "ok" THEN ReindexEnd
       ELSE IF vectorExt = VECTORS
       THEN uPc' = "startTransaction" /\ UNCHANGED <<uResult, rIndex>>
       ELSE Throw(out) /\ UNCHANGED rIndex
    /\ UNCHANGED <<vectorExt, pgExtension, extension, version, curVersion, minorOrMajor,
                   restartRequired>>

\* this.dataSource.manager.transaction(...) opens the transaction
StartTransaction(ok) ==
    /\ UNCHANGED <<lockVars, otherVars>>
    /\ Query("startTransaction", Stmt("START TRANSACTION", TableOf(rIndex), <<>>, ok),
             "widenColumn")
    /\ UNCHANGED <<vectorExt, pgExtension, extension, version, curVersion, minorOrMajor,
                   restartRequired, rIndex>>

\* a statement inside the transaction: its failure rolls the transaction back
\* and is thrown on
InTransaction(at, st, next) ==
    /\ uPc = at
    /\ IF st.ok
       THEN Issue(st) /\ uPc' = next /\ UNCHANGED uResult
       ELSE /\ uLog' = uLog \o <<st, Stmt("ROLLBACK", TableOf(rIndex), <<>>, TRUE)>>
            /\ Throw("QueryFailedError")

WidenColumn(ok) ==
    /\ UNCHANGED <<lockVars, otherVars>>
    /\ InTransaction("widenColumn",
            Stmt("ALTER COLUMN embedding SET DATA TYPE real[]", TableOf(rIndex), <<>>, ok),
            "narrowColumn")
    /\ UNCHANGED <<vectorExt, pgExtension, extension, version, curVersion, minorOrMajor,
                   restartRequired, rIndex>>

NarrowColumn(ok) ==
    /\ UNCHANGED <<lockVars, otherVars>>
    /\ InTransaction("narrowColumn",
            Stmt("ALTER COLUMN embedding SET DATA TYPE vector", TableOf(rIndex), <<>>, ok),
            "reindexAgain")
    /\ UNCHANGED <<vectorExt, pgExtension, extension, version, curVersion, minorOrMajor,
                   restartRequired, rIndex>>

ReindexAgain(ok) ==
    /\ UNCHANGED <<lockVars, otherVars>>
    /\ InTransaction("reindexAgain", Stmt("REINDEX INDEX", rIndex, <<>>, ok), "commit")
    /\ UNCHANGED <<vectorExt, pgExtension, extension, version, curVersion, minorOrMajor,
                   restartRequired, rIndex>>

\* the transaction commits and reindex returns
Commit(ok) ==
    /\ UNCHANGED <<lockVars, otherVars>>
    /\ uPc = "commit"
    /\ Issue(Stmt("COMMIT", TableOf(rIndex), <<>>, ok))
    /\ IF ok THEN ReindexEnd ELSE Throw("QueryFailedError") /\ UNCHANGED rIndex
    /\ UNCHANGED <<vectorExt, pgExtension, extension, version, curVersion, minorOrMajor,
                   restartRequired>>

(***************************************************************************)
(* getExtensionVersion(extension) and                                      *)
(* getAvailableExtensionVersion(extension)                                 *)
(***************************************************************************)
GetExtensionVersionCall(ext) ==
    /\ UNCHANGED <<lockVars, env, startup, pgAvailable>>
    /\ uPc = "idle"
    /\ op' = "getExtensionVersion"
    /\ extension' = ext
    /\ uPc' = "extensionVersion"
    /\ UNCHANGED <<vectorExt, pgExtension, version, curVersion, minorOrMajor,
                   restartRequired, rIndex, uLog, uResult>>

\* the query of pg_extension and what getExtensionVersion makes of its row
GetExtensionVersionReturn(ok) ==
    /\ UNCHANGED <<lockVars, otherVars>>
    /\ uPc = "extensionVersion"
    /\ Issue(Stmt("SELECT extversion FROM pg_extension", extension, <<>>, ok))
    /\ IF ~ok THEN Throw("QueryFailedError")
       ELSE LET v == ExtensionVersionOf(pgExtension) IN
            IF v = ParseError THEN Throw("ParseError") ELSE ReturnValue(v)
    /\ UNCHANGED <<vectorExt, pgExtension, extension, version, curVersion, minorOrMajor,
                   restartRequired, rIndex>>

\* the characters of a version text in the order of their code points
CharOrder == <<"-", ".", "0", "1", "2", "3", "4", "5", "6", "7", "8", "9">>

CharRank(ch) == CHOOSE i \in 1..Len(CharOrder) : CharOrder[i] = ch

\* the order of two values of type text: character by character, a proper
\* prefix first
RECURSIVE TextLess(_, _)
TextLess(a, b) ==
    IF a = <<>> THEN b # <<>>
    ELSE IF b = <<>> THEN FALSE
    ELSE IF Head(a) = Head(b) THEN TextLess(Tail(a), Tail(b))
    ELSE CharRank(Head(a)) < CharRank(Head(b))

\* ORDER BY version DESC
RECURSIVE OrderByVersionDesc(_)
OrderByVersionDesc(rows) ==
    IF rows = {} THEN <<>>
    ELSE LET top == CHOOSE r \in rows :
                        \A q \in rows : q.version = r.version \/ TextLess(q.version, r.version)
         IN <<top>> \o OrderByVersionDesc(rows \ {top})

\* WHERE name = $1 AND installed = false ORDER BY version DESC
SelectAvailable(rows) == OrderByVersionDesc({r \in rows : ~r.installed})

\* res[0]?.['version'], parsed, or null
AvailableVersionOf(rows) ==
    LET table == SelectAvailable(rows) IN
    IF table = <<>> THEN Null ELSE VersionFromString(table[1].version)

GetAvailableExtensionVersionCall(ext) ==
    /\ UNCHANGED <<lockVars, env, startup, pgAvailable>>
    /\ uPc = "idle"
    /\ op' = "getAvailableExtensionVersion"
    /\ extension' = ext
    /\ uPc' = "availableVersion"
    /\ UNCHANGED <<vectorExt, pgExtension, version, curVersion, minorOrMajor,
                   restartRequired, rIndex, uLog, uResult>>

\* the query of pg_available_extension_versions and what
\* getAvailableExtensionVersion makes of its first row
GetAvailableExtensionVersionReturn(ok) ==
    /\ UNCHANGED <<lockVars, otherVars>>
    /\ uPc = "availableVersion"
    /\ Issue(Stmt("SELECT version FROM pg_available_extension_versions", extension, <<>>, ok))
    /\ IF ~ok THEN Throw("QueryFailedError")
       ELSE LET v == AvailableVersionOf(pgAvailable) IN
            IF v = ParseError THEN Throw("ParseError") ELSE ReturnValue(v)
    /\ UNCHANGED <<vectorExt, pgExtension, extension, version, curVersion, minorOrMajor,
                   restartRequired, rIndex>>

(***************************************************************************)
(* shouldReindex(name)                                                     *)
(***************************************************************************)
\* String.prototype.includes
Includes(t, sub) ==
    \E i \in 0..(Len(t) - Len(sub)) : SubSeq(t, i + 1, i + Len(sub)) = sub

\* 'index is not existing'
IndexIsNotExisting ==
    <<"i", "n", "d", "e", "x", " ", "i", "s", " ", "n", "o", "t", " ",
      "e", "x", "i", "s", "t", "i", "n", "g">>

\* the messages of the errors the status query fails with
StatusErrors ==
    { IndexIsNotExisting,
      <<"T", "h", "e", " ">> \o IndexIsNotExisting \o <<".">>,
      <<"i", "n", "d", "e", "x", " ", "i", "s", " ", "e", "x", "i", "s", "t", "i", "n", "g">>,
      <<"t", "i", "m", "e", "o", "u", "t">> }

\* the idx_status values of pg_vector_index_stat
IndexStatuses == {"NORMAL", "UPGRADE"}

\* what the status query gives: rows (none, or one with idx_status), or an
\* error with a message
StatusOutcomes ==
    {[rows |-> <<>>]} \cup {[rows |-> <<[idx_status |-> st]>>] : st \in IndexStatuses}
        \cup {[message |-> msg] : msg \in StatusErrors}

\* shouldReindex(name) up to its first await: under another extension than
\* pgvecto.rs it returns false at once
ShouldReindexCall(name) ==
    /\ UNCHANGED <<lockVars, env, startup, pgAvailable>>
    /\ uPc = "idle"
    /\ op' = "shouldReindex"
    /\ rIndex' = name
    /\ IF vectorExt # VECTORS THEN ReturnValue(FALSE)
       ELSE uPc' = "indexStatus" /\ UNCHANGED uResult
    /\ UNCHANGED <<vectorExt, pgExtension, extension, version, curVersion, minorOrMajor,
                   restartRequired, uLog>>

\* the catch block taking any message for a missing index
IndexStatusAnyErrorTrue(out) ==
    /\ UNCHANGED <<lockVars, otherVars>>
    /\ uPc = "indexStatus"
    /\ uLog' = Append(uLog, [q |-> "SELECT idx_status FROM pg_vector_index_stat",
                             on |-> rIndex, arg |-> <<>>,
                             ok |-> "rows" \in DOMAIN out, out |-> out])
    /\ IF "rows" \in DOMAIN out
       THEN ReturnValue(out.rows # <<>> /\ out.rows[1].idx_status = "UPGRADE")
       ELSE ReturnValue(TRUE)
    /\ UNCHANGED <<vectorExt, pgExtension, extension, version, curVersion, minorOrMajor,
                   restartRequired, rIndex>>

\* the status query, `res[0]?.['idx_status'] === 'UPGRADE'`, and the catch
IndexStatus(out) ==
    /\ UNCHANGED <<lockVars, otherVars>>
    /\ uPc = "indexStatus"
    /\ uLog' = Append(uLog, [q |-> "SELECT idx_status FROM pg_vector_index_stat",
                             on |-> rIndex, arg |-> <<>>,
                             ok |-> "rows" \in DOMAIN out, out |-> out])
    /\ IF "rows" \in DOMAIN out
       THEN ReturnValue(out.rows # <<>> /\ out.rows[1].idx_status = "UPGRADE")
       ELSE IF Includes(out.message, IndexIsNotExisting)
       THEN ReturnValue(TRUE)
       ELSE uPc' = "failed" /\ uResult' = [error |-> "QueryFailedError", message |-> out.message]
    /\ UNCHANGED <<vectorExt, pgExtension, extension, version, curVersion, minorOrMajor,
                   restartRequired, rIndex>>

(***************************************************************************)
(* The specifications.                                                     *)
(***************************************************************************)
\* the installed extension: no row, or a row with a well-formed version
InstalledRows ==
    {<<>>} \cup {<<[extversion |-> VersionToString(v), extrelocatable |-> FALSE,
                    extnamespace |-> "public"]>> : v \in Versions}

UpgradeIdle ==
    /\ op = "none"
    /\ uPc = "idle"
    /\ extension = VECTORS
    /\ version = NoVersion
    /\ curVersion = Null
    /\ minorOrMajor = FALSE
    /\ restartRequired = FALSE
    /\ rIndex = CLIP
    /\ uLog = <<>>
    /\ uResult = [none |-> TRUE]

UpgradeNext ==
    \/ \E ext \in VectorExtension, ver \in Versions \cup {NoVersion} :
            UpdateVectorExtensionCall(ext, ver)
    \/ \E ok \in BOOLEAN :
        \/ GetExtensionVersion(ok)
        \/ CreateSchema(ok)
        \/ SetExtversion(ok)
        \/ SetRelocatable(ok)
        \/ SetSchema(ok)
        \/ UnsetRelocatable(ok)
        \/ AlterExtensionUpdate(ok)
        \/ PgvectorsUpgrade(ok)
        \/ StartTransaction(ok)
        \/ WidenColumn(ok)
        \/ NarrowColumn(ok)
        \/ ReindexAgain(ok)
        \/ Commit(ok)
    \/ \E out \in RebuildOutcomes : Reindex(out)

\* database.config has been loaded with one of the two names configured
Loaded ==
    /\ startup = "loaded"
    /\ env \in {Str(PGVECTOR), Str(PGVECTO_RS)}
    /\ vectorExt = IF env = Str(PGVECTOR) THEN VECTOR ELSE VECTORS

\* the lock manager, with no upgrade going on
Init ==
    /\ LockInit
    /\ UpgradeIdle
    /\ Loaded
    /\ vectorExt = VECTORS
    /\ pgExtension = <<>>
    /\ pgAvailable = {}

Next == LockNext

Spec == Init /\ [][Next]_vars

\* one updateVectorExtension call, for every configuration, installed
\* version and argument
InitUpgrade ==
    /\ LockInit
    /\ UpgradeIdle
    /\ Loaded
    /\ pgExtension \in InstalledRows
    /\ pgAvailable = {}

NextUpgrade == UpgradeNext

SpecUpgrade == InitUpgrade /\ [][NextUpgrade]_vars

\* the callers of one lock name: one call more than in Spec, all of them for
\* GeodataImport, from any process
LiveCalls == 1..(NCalls + 1)

InitLive ==
    /\ NoCallMade(LiveCalls)
    /\ UpgradeIdle
    /\ Loaded
    /\ vectorExt = VECTORS
    /\ pgExtension = <<>>
    /\ pgAvailable = {}

NextLive ==
    \E c \in LiveCalls :
        \/ \E p \in Procs : WithLockCall(c, p, GeodataImport)
        \/ \E p \in Procs : WaitCall(c, p, GeodataImport)
        \/ AcquireLockOk(c)
        \/ AcquireLockFail(c)
        \/ CallbackReturn(c)
        \/ CallbackThrow(c)
        \/ ReleaseLockOk(c)
        \/ \E sessionLost \in BOOLEAN : ReleaseLockFail(c, sessionLost)
        \/ QueryRunnerReleaseOk(c)
        \/ QueryRunnerReleaseFail(c)
        \/ WaitReturn(c)
        \/ Return(c)

\* the next step of call c once it has been made: the completion of the
\* query it awaits, the end of the operation, or the continuation of its
\* caller
Step(c) ==
    \/ AcquireLockOk(c)
    \/ AcquireLockFail(c)
    \/ CallbackReturn(c)
    \/ CallbackThrow(c)
    \/ ReleaseLockOk(c)
    \/ \E sessionLost \in BOOLEAN : ReleaseLockFail(c, sessionLost)
    \/ QueryRunnerReleaseOk(c)
    \/ QueryRunnerReleaseFail(c)
    \/ WaitReturn(c)
    \/ Return(c)

\* Every operation terminates, every query completes (it returns or fails),
\* and the event loop runs every continuation that is due.  The callers are
\* not bound to call.
Fairness == \A c \in LiveCalls : WF_vars(Step(c))

SpecLive == InitLive /\ [][NextLive]_vars /\ Fairness

\* one reindex or shouldReindex call, for either configuration and index
InitReindex ==
    /\ LockInit
    /\ UpgradeIdle
    /\ Loaded
    /\ pgExtension = <<>>
    /\ pgAvailable = {}

NextReindex ==
    \/ \E index \in {CLIP, FACE} : ReindexCall(index)
    \/ \E out \in RebuildOutcomes : Reindex(out)
    \/ \E ok \in BOOLEAN :
        \/ StartTransaction(ok)
        \/ WidenColumn(ok)
        \/ NarrowColumn(ok)
        \/ ReindexAgain(ok)
        \/ Commit(ok)
    \/ \E name \in {CLIP, FACE} : ShouldReindexCall(name)
    \/ \E out \in StatusOutcomes : IndexStatus(out)

SpecReindex == InitReindex /\ [][NextReindex]_vars

\* the versions pg_available_extension_versions lists
AvailableVersions ==
    {NewVersion(0, b, c) : b \in 0..MaxPart, c \in 0..MaxPatch}

\* the pg_available_extension_versions rows of an extension: no, one or two
\* versions, the installed one marked
AvailableRows(installedRows) ==
    {{[version |-> VersionToString(v),
       installed |-> installedRows # <<>> /\ installedRows[1].extversion = VersionToString(v)]
            : v \in S} : S \in {{}} \cup {{v, w} : v, w \in AvailableVersions}}

\* one getExtensionVersion or getAvailableExtensionVersion call, for every
\* installed version and every such table of available versions
InitInventory ==
    /\ LockInit
    /\ UpgradeIdle
    /\ Loaded
    /\ vectorExt = VECTORS
    /\ pgExtension \in InstalledRows
    /\ pgAvailable \in AvailableRows(pgExtension)

NextInventory ==
    \/ \E ext \in VectorExtension : GetExtensionVersionCall(ext)
    \/ \E ok \in BOOLEAN : GetExtensionVersionReturn(ok)
    \/ \E ext \in VectorExtension : GetAvailableExtensionVersionCall(ext)
    \/ \E ok \in BOOLEAN : GetAvailableExtensionVersionReturn(ok)

SpecInventory == InitInventory /\ [][NextInventory]_vars

\* runs of white space of at most MaxPad characters
Pads == UNION {[1..n -> WhiteSpace] : n \in 0..MaxPad}

\* names an operator may write: the two names of the list, the enum keys
\* vector and vectors, a shortened name, and nothing
WrittenNames ==
    { PGVECTOR, PGVECTO_RS, SubSeq(PGVECTOR, 3, 8), SubSeq(PGVECTOR, 3, 8) \o <<"s">>,
      SubSeq(PGVECTOR, 1, 7), <<>> }

\* a name with its first letter in upper case
Capitalised(t) == IF t = <<>> THEN t ELSE <<ToUpperChar(Head(t))>> \o Tail(t)

\* the values of IMMICH_VECTOR_EXTENSION tried: unset, or a name as it is,
\* in upper case or capitalised, with white space around it
EnvValues ==
    {Undefined} \cup
    {Str(l \o c \o r) :
        l \in Pads, r \in Pads,
        c \in UNION {{t, toUpperCase(t), Capitalised(t)} : t \in WrittenNames}}

\* the process starts: database.config is loaded, for every such value
InitConfig ==
    /\ LockInit
    /\ UpgradeIdle
    /\ startup = "loading"
    /\ env \in EnvValues
    /\ vectorExt = "unresolved"
    /\ pgExtension = <<>>
    /\ pgAvailable = {}

NextConfig == LoadConfig

SpecConfig == InitConfig /\ [][NextConfig]_vars

(***************************************************************************)
(* Properties of the lock manager.                                         *)
(***************************************************************************)
InLog(c, e) == \E i \in 1..Len(log[c]) : log[c][i] = e

\* the callback withLock passes to asyncLock.acquire is running
InCallback(c) == pc[c] \in {"locking", "body", "unlocking", "releasing"}

\* the call has been made and has not released the in-process key
HoldsOrAwaitsKey(c) ==
    pc[c] \in {"queued", "locking", "body", "unlocking", "releasing", "waitHolding"}

Finished(c) == pc[c] \in {"done", "returned"}

SameKey(c, d) == proc[c] = proc[d] /\ lock[c] = lock[d]

\* C1: in one process, at most one withLock callback (and so at most one
\* withLock body) per lock name is running at any time, whatever withLock
\* and wait calls are interleaved.
C1_OneBodyPerNameInProcess ==
    \A c, d \in Calls :
        (c # d /\ InCallback(c) /\ InCallback(d) /\ proc[c] = proc[d])
            => lock[c] # lock[d]

\* C1: two withLock calls of one process with different lock names are both
\* inside their bodies.
C1_Witness ==
    \E c, d \in Calls :
        /\ pc[c] = "body" /\ pc[d] = "body"
        /\ proc[c] = proc[d] /\ lock[c] # lock[d]

\* C2: across processes, a withLock body runs only while the advisory lock
\* of its key is held by the session of that call, so at most one body per
\* key runs; a call whose lock query failed never runs its body.
C2_BodyOnlyUnderDbLock ==
    \A c \in Calls :
        /\ pc[c] = "body" => dbLock[lock[c]] = c
        /\ \A d \in Calls : (d # c /\ pc[c] = "body" /\ pc[d] = "body") => lock[c] # lock[d]
        /\ InLog(c, "lock.fail") => ~InLog(c, "operation.start")
        /\ InLog(c, "operation.start") => InLog(c, "lock.acquire")

\* C2: a call of one process is in its body while a call of another process
\* for the same key is held at its lock query.
C2_Witness ==
    \E c, d \in Calls :
        /\ proc[c] # proc[d] /\ lock[c] = lock[d]
        /\ pc[c] = "body" /\ pc[d] = "locking"

\* the session of call c holds an advisory lock
HoldsDbLock(c) == \E k \in DatabaseLock : dbLock[k] = c

InQueue(c) ==
    \E p \in Procs, k \in DatabaseLock :
        \E i \in 1..Len(Queue(p, k)) : Queue(p, k)[i] = c

Rank(e) ==
    CASE e = "queued" -> 0
      [] e = "mutex.acquire" -> 1
      [] e = "runner.create" -> 2
      [] e \in {"lock.acquire", "lock.fail"} -> 3
      [] e = "operation.start" -> 4
      [] e \in {"operation.return", "operation.throw"} -> 5
      [] e \in {"lock.release", "unlock.fail"} -> 6
      [] e \in {"runner.release", "runner.release.fail"} -> 7
      [] e = "mutex.release" -> 8

Ranks(c) == [i \in 1..Len(log[c]) |-> Rank(log[c][i])]

Increasing(sq) == \A i, j \in 1..Len(sq) : i < j => sq[i] < sq[j]

RankSet(c) == {Ranks(c)[i] : i \in 1..Len(log[c])}

\* C4: the steps of a withLock call are made in the nesting order mutex,
\* connection, advisory lock, operation, unlock, connection release, mutex
\* release; a call whose operation returned or threw has made all of them,
\* and every finished call has made the three releases in that order.
C4_NestingOrder ==
    \A c \in Calls :
        kind[c] = "withLock" =>
            /\ Increasing(Ranks(c))
            /\ pc[c] = "done" => {1, 2, 3, 6, 7, 8} \subseteq RankSet(c)
            /\ (pc[c] = "done" /\ InLog(c, "operation.start")) => (1..8) \subseteq RankSet(c)

\* C4: a withLock whose operation threw has finished.
C4_Witness ==
    \E c \in Calls :
        /\ kind[c] = "withLock" /\ pc[c] = "done"
        /\ InLog(c, "operation.throw") /\ InLog(c, "lock.release")

\* a withLock of process p for key k has started and not yet ended
WithLockInFlight(p, k) ==
    \E c \in Calls :
        /\ kind[c] = "withLock" /\ proc[c] = p /\ lock[c] = k
        /\ pc[c] \in {"queued", "locking", "body", "unlocking", "releasing", "done"}

\* C5 as stated: isBusy(L) is true only while a withLock(L) of this process
\* is in flight.
C5_BusyOnlyDuringWithLock ==
    \A p \in Procs, k \in DatabaseLock : isBusy(p, k) => WithLockInFlight(p, k)

\* C5 amended: isBusy(L) is true exactly while a withLock(L) or a wait(L) of
\* this process has been called and has not yet released the in-process
\* key; calls and locks of other processes never make it true.
C5_BusyWhileKeyHeldOrAwaited ==
    \A p \in Procs, k \in DatabaseLock :
        isBusy(p, k) <=>
            \E c \in Calls : proc[c] = p /\ lock[c] = k /\ HoldsOrAwaitsKey(c)

\* C5: isBusy is true while only a wait is in flight, and false in a process
\* while another process holds the advisory lock.
C5_Witness ==
    \E p, q \in Procs, k \in DatabaseLock :
        /\ p # q /\ isBusy(p, k) /\ ~WithLockInFlight(p, k)
        /\ \E c \in Calls : proc[c] = q /\ pc[c] = "body"

\* C6: a wait that has returned was not overtaken by an earlier withLock of
\* its process for the same key: every such call has finished its operation,
\* unlock and connection release.  A wait never issues a lock query and never
\* opens a connection, and it is queued only behind a task of its own process.
C6_WaitAfterInProcessHolder ==
    \A c \in Calls :
        kind[c] = "wait" =>
            /\ Finished(c) =>
                \A h \in Calls :
                    (h < c /\ kind[h] = "withLock" /\ SameKey(h, c)) => Finished(h)
            /\ queryRunner[c] = "none" /\ ~HoldsDbLock(c)
            /\ \A i \in 1..Len(log[c]) : log[c][i] \in {"queued", "mutex.acquire", "mutex.release"}
            /\ pc[c] = "queued" =>
                /\ Head(Queue(proc[c], lock[c])) # c
                /\ proc[Head(Queue(proc[c], lock[c]))] = proc[c]

\* C6: a wait that was queued behind a withLock of its process returns, that
\* withLock having returned.
C6_Witness ==
    \E c, h \in Calls :
        /\ kind[c] = "wait" /\ pc[c] = "done" /\ InLog(c, "queued")
        /\ h < c /\ kind[h] = "withLock" /\ SameKey(h, c) /\ pc[h] = "returned"

(***************************************************************************)
(* Properties of updateVectorExtension.                                    *)
(***************************************************************************)
\* the statements issued, by name, in order
Issued == [i \in 1..Len(uLog) |-> uLog[i].q]

IssuedSet == {uLog[i].q : i \in 1..Len(uLog)}

RelocationSteps ==
    << "CREATE SCHEMA IF NOT EXISTS",
       "UPDATE pg_extension SET extversion",
       "UPDATE pg_extension SET extrelocatable = true",
       "ALTER EXTENSION SET SCHEMA",
       "UPDATE pg_extension SET extrelocatable = false" >>

RelocationSet == {RelocationSteps[i] : i \in 1..Len(RelocationSteps)}

\* the installed version has been read and is a version
VersionRead == uPc \notin {"idle", "getExtensionVersion"} /\ curVersion \in [major : Nat, minor : Nat, patch : Nat]

\* the target is given and is ahead of the installed version in its major
\* number, or in its minor number with the same major number
DeltaMinorOrMajor ==
    /\ version # NoVersion
    /\ \/ version.major > curVersion.major
       \/ version.major = curVersion.major /\ version.minor > curVersion.minor

\* C7 as stated: the upgrade DDL names exactly the canonical text of the
\* target version, and no version when no target is given.
C7_DdlNamesExactTarget ==
    \A i \in 1..Len(uLog) :
        uLog[i].q = "ALTER EXTENSION UPDATE" =>
            uLog[i].arg = IF version = NoVersion THEN <<>> ELSE VersionToString(version)

\* C8: a pgvecto.rs upgrade over a minor or major delta that returns has
\* issued the relocation steps, then the upgrade DDL, then the repair
\* procedure, and no reindex, and gives restartRequired = true; no other call
\* gives restartRequired = true.
C8_VectorsMinorOrMajor ==
    /\ (uPc = "returned" /\ extension = VECTORS /\ VersionRead /\ DeltaMinorOrMajor) =>
            /\ Issued = <<"SELECT extversion FROM pg_extension">> \o RelocationSteps
                            \o <<"ALTER EXTENSION UPDATE", "SELECT pgvectors_upgrade()">>
            /\ uResult = [restartRequired |-> TRUE]
    /\ uResult = [restartRequired |-> TRUE] =>
            (uPc = "returned" /\ extension = VECTORS /\ VersionRead /\ DeltaMinorOrMajor)

\* C8: a pgvecto.rs upgrade over a minor delta has returned.
C8_Witness ==
    /\ uPc = "returned" /\ extension = VECTORS
    /\ curVersion = NewVersion(0, 0, 0) /\ version = NewVersion(0, 1, 0)
    /\ uResult = [restartRequired |-> TRUE]

\* C9: a pgvector upgrade over a minor or major delta that returns has issued
\* no relocation step and no repair procedure, has rebuilt the CLIP index
\* and then the face index after the upgrade DDL, and gives
\* restartRequired = false.
C9_VectorMinorOrMajor ==
    (uPc = "returned" /\ extension = VECTOR /\ VersionRead /\ DeltaMinorOrMajor) =>
        /\ IssuedSet \cap RelocationSet = {}
        /\ "SELECT pgvectors_upgrade()" \notin IssuedSet
        /\ \E i, j, k \in 1..Len(uLog) :
                /\ i < j /\ j < k
                /\ uLog[i].q = "ALTER EXTENSION UPDATE" /\ uLog[i].ok
                /\ uLog[j] = Stmt("REINDEX INDEX", CLIP, <<>>, TRUE)
                /\ uLog[k] = Stmt("REINDEX INDEX", FACE, <<>>, TRUE)
        /\ uResult = [restartRequired |-> FALSE]

\* C9: a pgvector upgrade over a major delta has returned.
C9_Witness ==
    /\ uPc = "returned" /\ extension = VECTOR
    /\ curVersion = NewVersion(0, 1, 0) /\ version = NewVersion(1, 0, 0)
    /\ Len(uLog) = 4

\* C10: when the delta is not minor-or-major, for either extension, nothing
\* but the upgrade DDL is issued after the installed version is read, and a
\* call that returns gives restartRequired = false.
C10_NoDeltaOnlyDdl ==
    (VersionRead /\ ~DeltaMinorOrMajor) =>
        /\ \/ Issued = <<"SELECT extversion FROM pg_extension">>
           \/ Issued = <<"SELECT extversion FROM pg_extension", "ALTER EXTENSION UPDATE">>
        /\ uPc = "returned" =>
                /\ Len(uLog) = 2
                /\ uResult = [restartRequired |-> FALSE]

\* C10: an upgrade to a target older than the installed version has returned.
C10_Witness ==
    /\ uPc = "returned" /\ VersionRead
    /\ version # NoVersion /\ version.major < curVersion.major
    /\ Len(uLog) = 2

\* C11: when the extension is not installed, updateVectorExtension issues the
\* installed-version lookup and nothing else, changes nothing in the catalog,
\* and fails; when the lookup itself succeeded the failure is the
\* not-installed error.  That error is given in no other case.
C11_NotInstalledNoDdl ==
    /\ (pgExtension = <<>> /\ uPc \notin {"idle", "getExtensionVersion"}) =>
            /\ uPc = "failed"
            /\ Issued = <<"SELECT extversion FROM pg_extension">>
            /\ uLog[1].ok => uResult = [error |-> "extension is not installed"]
    /\ uResult = [error |-> "extension is not installed"] =>
            (pgExtension = <<>> /\ Len(uLog) = 1)

\* C11: an upgrade of pgvecto.rs to a named version has failed because the
\* extension is not installed.
C11_Witness ==
    /\ uPc = "failed" /\ extension = VECTORS /\ version # NoVersion
    /\ pgExtension = <<>>
    /\ uResult = [error |-> "extension is not installed"]

(***************************************************************************)
(* Properties of reindex and shouldReindex.                                *)
(***************************************************************************)
\* the call has ended, by returning or by throwing
Ended == uPc \in {"returned", "failed"}

\* the recovery of reindex for the index worked on, statement by statement
Recovery ==
    << Stmt("START TRANSACTION", TableOf(rIndex), <<>>, TRUE),
       Stmt("ALTER COLUMN embedding SET DATA TYPE real[]", TableOf(rIndex), <<>>, TRUE),
       Stmt("ALTER COLUMN embedding SET DATA TYPE vector", TableOf(rIndex), <<>>, TRUE),
       Stmt("REINDEX INDEX", rIndex, <<>>, TRUE),
       Stmt("COMMIT", TableOf(rIndex), <<>>, TRUE) >>

\* the statements after the first one
Later == SubSeq(uLog, 2, Len(uLog))

\* C12: a reindex call that has ended (1) after a successful direct rebuild
\* has issued nothing else and returned; (2) after a failed direct rebuild
\* under pgvecto.rs has opened one transaction and issued in it, once each
\* and in this order, widen, narrow, rebuild, up to the first failure; it has
\* returned exactly when all of them and the commit succeeded, and has
\* otherwise thrown the failure of the transaction, not the first one;
\* (3) after a failed direct rebuild under pgvector has issued nothing else
\* and thrown that failure.
C12_ReindexRecovery ==
    (op = "reindex" /\ Ended) =>
        /\ uLog[1].q = "REINDEX INDEX" /\ uLog[1].on = rIndex
        /\ uLog[1].ok => (Len(uLog) = 1 /\ uPc = "returned")
        /\ (~uLog[1].ok /\ vectorExt = VECTORS) =>
                /\ uPc = "returned" <=> Later = Recovery
                /\ uPc = "failed" =>
                        /\ uResult = [error |-> "QueryFailedError"]
                        /\ \E n \in 1..Len(Recovery) :
                                /\ SubSeq(Later, 1, n - 1) = SubSeq(Recovery, 1, n - 1)
                                /\ Later[n] = [Recovery[n] EXCEPT !.ok = FALSE]
                                /\ Len(Later) <= n + 1
                                /\ Len(Later) = n + 1 => Later[n + 1].q = "ROLLBACK"
        /\ (~uLog[1].ok /\ vectorExt = VECTOR) =>
                /\ Len(uLog) = 1
                /\ uPc = "failed"
                /\ uResult = [error |-> uLog[1].err]

\* C12: under pgvecto.rs the direct rebuild of the face index has failed and
\* reindex has returned after the recovery transaction.
C12_Witness ==
    /\ op = "reindex" /\ uPc = "returned" /\ rIndex = FACE /\ vectorExt = VECTORS
    /\ ~uLog[1].ok /\ Len(uLog) = 6

\* the status query failed because the index does not exist
IndexMissing(out) ==
    "message" \in DOMAIN out /\ Includes(out.message, IndexIsNotExisting)

\* the status query gave the status "needs upgrade"
NeedsUpgrade(out) ==
    "rows" \in DOMAIN out /\ out.rows # <<>> /\ out.rows[1].idx_status = "UPGRADE"

\* C13: a shouldReindex call that has ended after its status query has
\* returned true when the query gave the status "needs upgrade" or failed
\* because the index does not exist, has returned false when the query
\* succeeded with anything else, and has thrown the query's error in every
\* other case; it makes one status query at most, and none (returning false)
\* when the configured extension is not pgvecto.rs.
C13_ShouldReindex ==
    (op = "shouldReindex" /\ Ended) =>
        IF uLog = <<>>
        THEN vectorExt # VECTORS /\ uResult = [value |-> FALSE]
        ELSE LET out == uLog[1].out IN
             /\ Len(uLog) = 1 /\ vectorExt = VECTORS /\ uLog[1].on = rIndex
             /\ (NeedsUpgrade(out) \/ IndexMissing(out)) => uResult = [value |-> TRUE]
             /\ ("rows" \in DOMAIN out /\ ~NeedsUpgrade(out)) => uResult = [value |-> FALSE]
             /\ ("message" \in DOMAIN out /\ ~IndexMissing(out)) =>
                    /\ uPc = "failed"
                    /\ uResult = [error |-> "QueryFailedError", message |-> out.message]

\* C13: the status query has failed with a message saying that the index is
\* not existing, and shouldReindex has returned true.
C13_Witness ==
    /\ op = "shouldReindex" /\ uPc = "returned" /\ uResult = [value |-> TRUE]
    /\ Len(uLog) = 1 /\ ~uLog[1].ok
    /\ uLog[1].out.message = <<"T", "h", "e", " ">> \o IndexIsNotExisting \o <<".">>

(***************************************************************************)
(* Properties of getExtensionVersion and getAvailableExtensionVersion.     *)
(***************************************************************************)
\* the order of versions by (major, minor, patch)
VersionLess(v, w) ==
    \/ v.major < w.major
    \/ v.major = w.major /\ v.minor < w.minor
    \/ v.major = w.major /\ v.minor = w.minor /\ v.patch < w.patch

\* the available versions that are not installed
NotInstalled == {VersionFromString(r.version) : r \in {q \in pgAvailable : ~q.installed}}

\* C14 as stated: getAvailableExtensionVersion returns the highest, by
\* (major, minor, patch), of the available versions that are not installed,
\* and absent when there is none.
C14_HighestAvailable ==
    (op = "getAvailableExtensionVersion" /\ uPc = "returned") =>
        IF NotInstalled = {} THEN uResult = [value |-> Null]
        ELSE /\ uResult.value \in NotInstalled
             /\ \A v \in NotInstalled : ~VersionLess(uResult.value, v)

\* the text of version 0.1.1
Text011 == VersionToString(NewVersion(0, 1, 1))

\* C16: getExtensionVersion returns absent when the extension has no row,
\* 0.1.11 when the installed version text is 0.1.1, and otherwise the
\* version whose text is the installed one; what
\* getAvailableExtensionVersion returns is the version written in a row of
\* the available versions, 0.1.1 when that row says 0.1.1.
C16_RemapInstalledOnly ==
    /\ (op = "getExtensionVersion" /\ uPc = "returned") =>
            IF pgExtension = <<>> THEN uResult = [value |-> Null]
            ELSE IF pgExtension[1].extversion = Text011
            THEN uResult = [value |-> NewVersion(0, 1, 11)]
            ELSE /\ uResult.value \in Versions
                 /\ VersionToString(uResult.value) = pgExtension[1].extversion
    /\ (op = "getAvailableExtensionVersion" /\ uPc = "returned" /\ uResult # [value |-> Null]) =>
            \E r \in pgAvailable :
                /\ ~r.installed
                /\ VersionToString(uResult.value) = r.version

\* C16: with 0.1.1 installed getExtensionVersion has returned 0.1.11.
C16_Witness ==
    /\ op = "getExtensionVersion" /\ uPc = "returned"
    /\ pgExtension # <<>> /\ pgExtension[1].extversion = Text011
    /\ uResult = [value |-> NewVersion(0, 1, 11)]

\* C16: with 0.1.1 the one available version that is not installed,
\* getAvailableExtensionVersion has returned 0.1.1.
C16_WitnessAvailable ==
    /\ op = "getAvailableExtensionVersion" /\ uPc = "returned"
    /\ pgAvailable = {[version |-> Text011, installed |-> FALSE]}
    /\ uResult = [value |-> NewVersion(0, 1, 1)]

(***************************************************************************)
(* Properties of database.config.                                          *)
(***************************************************************************)
\* C15 as stated: a configured value is accepted only when it is pgvector
\* or pgvecto.rs, and then resolves to the matching extension; every other
\* configured value makes startup fail.
C15_OnlyCanonicalNames ==
    (startup # "loading" /\ env # Undefined) =>
        IF env = Str(PGVECTOR) THEN startup = "loaded" /\ vectorExt = VECTOR
        ELSE IF env = Str(PGVECTO_RS) THEN startup = "loaded" /\ vectorExt = VECTORS
        ELSE startup = "failed"

SameIgnoringCase(a, b) ==
    Len(a) = Len(b) /\ \A i \in 1..Len(a) : ToLowerChar(a[i]) = ToLowerChar(b[i])

\* t is name in some letter case, with white space only before and after it
Writes(t, name) ==
    \E i \in 0..Len(t) : \E j \in i..Len(t) :
        /\ \A k \in 1..i : t[k] \in WhiteSpace
        /\ \A k \in (j + 1)..Len(t) : t[k] \in WhiteSpace
        /\ SameIgnoringCase(SubSeq(t, i + 1, j), name)

\* C15 amended: pgvector and pgvecto.rs, in any letter case and with white
\* space around them, resolve to the matching extension; an unset, empty or
\* all-white-space value resolves to pgvecto.rs; every other value makes
\* startup fail and resolves to no extension.
C15_NormalisedNames ==
    startup # "loading" =>
        IF env = Undefined \/ Writes(env.value, <<>>)
        THEN startup = "loaded" /\ vectorExt = VECTORS
        ELSE IF Writes(env.value, PGVECTOR)
        THEN startup = "loaded" /\ vectorExt = VECTOR
        ELSE IF Writes(env.value, PGVECTO_RS)
        THEN startup = "loaded" /\ vectorExt = VECTORS
        ELSE startup = "failed" /\ vectorExt = "unresolved"

\* C15: the value " PGVECTOR" followed by a tab has been accepted as pgvector.
C15_Witness ==
    /\ startup = "loaded" /\ vectorExt = VECTOR
    /\ env = Str(<<" ">> \o toUpperCase(PGVECTOR) \o <<"\t">>)

\* C15: the value "vector" has made startup fail.
C15_WitnessRejected ==
    /\ startup = "failed" /\ env = Str(SubSeq(PGVECTOR, 3, 8))

(***************************************************************************)
(* Properties of the schema relocation (updateVectorsSchema).              *)
(***************************************************************************)
\* a step of the relocation has failed
RelocationFailed ==
    \E i \in 1..Len(uLog) : uLog[i].q \in RelocationSet /\ ~uLog[i].ok

\* C17 as stated: the relocation is atomic: once one of its steps has failed
\* the extension is neither relocatable nor moved, and at the end of every
\* updateVectorExtension call, returned or failed, the relocatable flag of
\* the extension is false.
C17_RelocationAtomic ==
    (op = "updateVectorExtension" /\ pgExtension # <<>>) =>
        /\ RelocationFailed =>
                /\ pgExtension[1].extrelocatable = FALSE
                /\ pgExtension[1].extnamespace = "public"
        /\ Ended => pgExtension[1].extrelocatable = FALSE

(***************************************************************************)
(* Properties of the recovery of reindex.                                  *)
(***************************************************************************)
\* the failure the recovery was written for
KnownCorruption == "index corruption"

\* the direct rebuild of a reindex call has failed under pgvecto.rs
DirectRebuildFailed ==
    op = "reindex" /\ vectorExt = VECTORS /\ uLog # <<>> /\ ~uLog[1].ok

\* C18 as stated: under pgvecto.rs a direct rebuild that failed otherwise
\* than with the known corruption is propagated, with no recovery statement
\* and no retry.
C18_RecoveryOnlyOnSignature ==
    (DirectRebuildFailed /\ Ended /\ uLog[1].err # KnownCorruption) =>
        /\ Len(uLog) = 1
        /\ uPc = "failed"
        /\ uResult = [error |-> uLog[1].err]

\* C18 amended: under pgvecto.rs a direct rebuild that failed, whatever the
\* failure, is followed by the recovery transaction: the call does not end
\* before it has opened it, it retries the rebuild at most once, and what it
\* throws is the failure of the recovery, never the first failure.
C18_RecoveryOnEveryFailure ==
    DirectRebuildFailed =>
        /\ uLog[1].err \in RebuildErrors
        /\ Len(uLog) = 1 => uPc = "startTransaction"
        /\ Len(uLog) > 1 => uLog[2].q = "START TRANSACTION"
        /\ Cardinality({i \in 1..Len(uLog) : uLog[i].q = "REINDEX INDEX"}) <= 2
        /\ uPc = "failed" => (Len(uLog) > 1 /\ uResult = [error |-> "QueryFailedError"])

\* C18: under pgvecto.rs the direct rebuild has failed with a deadlock and
\* reindex has returned after the recovery.
C18_Witness ==
    /\ DirectRebuildFailed /\ uLog[1].err = "deadlock detected"
    /\ uPc = "returned" /\ Later = Recovery

(***************************************************************************)
(* Properties of what withLock gives its caller.                           *)
(***************************************************************************)
\* C19 as stated: a withLock call whose operation returned gives the value
\* the operation returned, and one whose operation threw fails with the
\* error of the operation, whatever happens in the unlock and in the release
\* of the connection.
C19_OperationOutcomeKept ==
    \A c \in Calls :
        (kind[c] = "withLock" /\ pc[c] = "done") =>
            /\ InLog(c, "operation.return") => result[c] = OperationValue
            /\ InLog(c, "operation.throw") => result[c] = "operationError"

\* C19 amended: a withLock call gives the value the operation returned, or
\* fails with the error of the operation (of the lock query when that
\* failed), exactly when both the unlock and the release of the connection
\* succeeded; otherwise it fails with the error of the last of the two that
\* failed, which replaces the value or the error of the operation.
C19_LastCleanupFailureWins ==
    \A c \in Calls :
        (kind[c] = "withLock" /\ pc[c] = "done") =>
            result[c] = IF InLog(c, "runner.release.fail") THEN "releaseError"
                        ELSE IF InLog(c, "unlock.fail") THEN "unlockError"
                        ELSE IF InLog(c, "operation.throw") THEN "operationError"
                        ELSE IF InLog(c, "lock.fail") THEN "lockError"
                        ELSE OperationValue

\* C19: the operation threw, the unlock query failed, and withLock has
\* failed with the error of the unlock.
C19_Witness ==
    \E c \in Calls :
        /\ kind[c] = "withLock" /\ pc[c] = "done"
        /\ InLog(c, "operation.throw") /\ InLog(c, "unlock.fail")
        /\ result[c] = "unlockError"

(***************************************************************************)
(* Liveness of withLock and wait.                                          *)
(***************************************************************************)
\* the callback of the call has started
Started(c) == pc[c] \notin {"idle", "queued"}

\* C20: every withLock and wait call that has been made eventually returns
\* to its caller, and the calls of one process for the lock name are served
\* in the order they were made: a call starts only when every earlier call
\* of its process has left the in-process key.
C20_EveryCallReturns ==
    /\ \A c \in LiveCalls : (pc[c] # "idle") ~> (pc[c] = "returned")
    /\ [](\A c, d \in LiveCalls :
            (c < d /\ pc[d] # "idle" /\ proc[c] = proc[d] /\ Started(d)) => Finished(c))

\* C20: three calls of one process are in flight, the second and the third
\* waiting behind the first, which holds the advisory lock.
C20_Witness ==
    \E c, d, e \in Calls :
        /\ c < d /\ d < e /\ proc[c] = proc[d] /\ proc[d] = proc[e]
        /\ pc[c] = "body" /\ pc[d] = "queued" /\ pc[e] = "queued"
        /\ kind[d] = "withLock"

====
